---- MODULE Spec2Model ----
(***************************************************************************)
(* Model of ctgovchat.py: the conversation-to-SQL feedback loop of main(), *)
(* the statement extraction of extract_queries_from_response, and the      *)
(* psycopg2 connection the loop executes statements on.                    *)
(*                                                                         *)
(* Texts are sequences of pieces.  A piece is a single character for the   *)
(* texts the program inspects (model replies, user input) and a whole      *)
(* literal phrase for the fixed parts of the f-string templates, which the *)
(* program only concatenates.                                              *)
(***************************************************************************)
EXTENDS Integers, Sequences, FiniteSets, TLC

VARIABLES
    pc,               \* position of main()
    conn,             \* "none" | "open" | "closed": the psycopg2 connection
    closeCount,       \* number of conn.close() calls made
    txn,              \* transaction status of conn: "idle" | "intrans" | "inerror"
    selected_table,   \* answer to the "Select a table" prompt
    initial_question, \* answer to the first question prompt
    messages,         \* the conversation sent to the model
    num_tries,        \* failed attempts of the current request
    response,         \* None or the reply of the current request
    inflight,         \* chat.completions.create calls that have not returned
    calls,            \* create() calls issued for the current request
    response_content, \* text of the reply being processed
    queries,          \* candidates extracted from the reply
    qi,               \* index of the next candidate of the for loop
    result_string,    \* feedback text of the turn
    outcomes,         \* what each executed candidate of the turn produced
    next_message,     \* answer to the follow-up prompt
    turn,             \* iterations of the while True loop started
    exit,             \* how main() ended: "none" while it runs
    leftover_tries,   \* num_tries as the request in progress found it, before
                      \* its reset; 0 when no request is in progress
    schema,           \* rows of the column catalog, as get_schema returns them
    example_rows,     \* table -> sample row, as get_example_rows returns it
    schema_string     \* text made by format_schema

vars == <<pc, conn, closeCount, txn, selected_table, initial_question, messages,
          num_tries, response, inflight, calls, response_content, queries, qi,
          result_string, outcomes, next_message, turn, exit, leftover_tries,
          schema, example_rows, schema_string>>

schemaVars == <<schema, example_rows, schema_string>>

----------------------------------------------------------------------------
(* Bounds *)

MaxReplyTokens == 5
MaxTurns == 2
MaxRows == 1
MaxRenderRows == 5
MaxCatalogRows == 3

----------------------------------------------------------------------------
(* Text primitives: str.split, str.replace, str.strip, str.lower *)

\* None, for the variables that hold a text or a list: a one-piece text
\* that no text of the program equals
None == <<"None">>

\* selected_table before the prompt
NoTable == "None"

\* example_rows before get_example_rows: no table has a sample
NoSamples == <<>>

\* the backquote character, which a TLA+ string cannot hold
Backtick == "BQ"

Fence == <<Backtick, Backtick, Backtick>>
SqlTag == <<"s", "q", "l">>
Whitespace == {" ", "\n", "\t"}

\* s[i : i + len(p)] == p
MatchesAt(s, i, p) ==
    /\ i + Len(p) - 1 <= Len(s)
    /\ \A k \in 1..Len(p) : s[i + k - 1] = p[k]

RECURSIVE SplitFrom(_, _, _, _, _)
SplitFrom(s, sep, i, cur, acc) ==
    IF i > Len(s) THEN Append(acc, cur)
    ELSE IF MatchesAt(s, i, sep)
         THEN SplitFrom(s, sep, i + Len(sep), <<>>, Append(acc, cur))
         ELSE SplitFrom(s, sep, i + 1, Append(cur, s[i]), acc)

\* s.split(sep): the pieces between the non-overlapping occurrences of sep,
\* found left to right
Split(s, sep) == SplitFrom(s, sep, 1, <<>>, <<>>)

RECURSIVE RemoveFrom(_, _, _, _)
RemoveFrom(s, old, i, acc) ==
    IF i > Len(s) THEN acc
    ELSE IF MatchesAt(s, i, old)
         THEN RemoveFrom(s, old, i + Len(old), acc)
         ELSE RemoveFrom(s, old, i + 1, Append(acc, s[i]))

\* s.replace(old, ""): every non-overlapping occurrence of old removed
ReplaceAllWithEmpty(s, old) == RemoveFrom(s, old, 1, <<>>)

RECURSIVE LStrip(_)
LStrip(s) ==
    IF s # <<>> /\ Head(s) \in Whitespace THEN LStrip(Tail(s)) ELSE s

RECURSIVE RStrip(_)
RStrip(s) ==
    IF s # <<>> /\ s[Len(s)] \in Whitespace
    THEN RStrip(SubSeq(s, 1, Len(s) - 1))
    ELSE s

\* s.strip()
Strip(s) == RStrip(LStrip(s))

LowerChar(c) == IF c = "Q" THEN "q" ELSE IF c = "H" THEN "h" ELSE c

\* mutant: the comparison without .lower()
LowerOmitted(s) == s

\* s.lower()
Lower(s) == [k \in 1..Len(s) |-> LowerChar(s[k])]

\* p occurs in s
Contains(s, p) == \E i \in 1..(Len(s) + 1) : MatchesAt(s, i, p)

RECURSIVE Flatten(_)
Flatten(ss) == IF ss = <<>> THEN <<>> ELSE Head(ss) \o Flatten(Tail(ss))

----------------------------------------------------------------------------
(* extract_queries_from_response *)

\* mutant: only the chunks that a second fence closes
OddChunksClosed(chunks) ==
    [k \in 1..((Len(chunks) - 1) \div 2) |-> chunks[2 * k]]

\* mutant: the chunks with i % 2 == 0, the prose
EvenChunks(chunks) ==
    [k \in 1..((Len(chunks) + 1) \div 2) |-> chunks[2 * k - 1]]

\* the chunks with i % 2 != 0 (0-based i), i.e. those at even 1-based index
OddChunks(chunks) ==
    [k \in 1..(Len(chunks) \div 2) |-> chunks[2 * k]]

\* chunk.replace("sql", "").strip()
CleanChunk(chunk) == Strip(ReplaceAllWithEmpty(chunk, SqlTag))

extract_queries_from_response(content) ==
    LET chunks == Split(content, Fence)
        fenced == OddChunks(chunks)
    IN  [k \in 1..Len(fenced) |-> CleanChunk(fenced[k])]

----------------------------------------------------------------------------
(* The environment: schema source, user input, model transport, database *)

\* table names returned by get_schema
Tables == {"studies"}

\* lines typed at the "Select a table" prompt
TableInputs == Tables \cup {"nope"}

\* lines typed at the question and follow-up prompts
UserInputs == {<<"q">>, <<"Q">>, <<"H", "i">>, <<"q", " ">>}

\* replies of the model: prose, fenced statements with and without the
\* language tag, an empty fence, an unterminated fence, "sql" inside a name
Replies ==
    { <<"h", "i">>,
      <<Backtick, Backtick>> \o SqlTag,
      Fence \o SqlTag \o <<"\n", "a", "\n">> \o Fence,
      <<"x">> \o Fence \o <<"a", " ", "b">> \o Fence \o <<" ">> \o Fence \o <<"c">> \o Fence,
      Fence \o SqlTag \o Fence,
      <<"x">> \o Fence \o <<"a">>,
      Fence \o <<"m", "y">> \o SqlTag \o <<"a">> \o Fence }

\* rows a statement can return: n mappings column -> value
RowsOf(n) == [k \in 1..n |-> "row"]

ErrServer == <<"relation does not exist">>
ErrAborted == <<"current transaction is aborted, commands ignored until end of transaction block">>
ErrEmpty == <<"can't execute an empty query">>
ErrClosed == <<"connection already closed">>

\* What conn.cursor() / cursor.execute(query) / cursor.fetchall() can do on a
\* psycopg2 connection opened by connect_db (autocommit is left off, nothing
\* commits or rolls back): valid tells whether the server accepts the
\* statement when it is run on its own.
Execute(query, c, t) ==
    IF c # "open"
    THEN {[query |-> query, valid |-> v, ok |-> FALSE, rows |-> <<>>,
           error |-> ErrClosed, txn |-> t] : v \in BOOLEAN}
    ELSE IF query = <<>>
    THEN {[query |-> query, valid |-> FALSE, ok |-> FALSE, rows |-> <<>>,
           error |-> ErrEmpty, txn |-> t]}
    ELSE IF t = "inerror"
    THEN {[query |-> query, valid |-> v, ok |-> FALSE, rows |-> <<>>,
           error |-> ErrAborted, txn |-> "inerror"] : v \in BOOLEAN}
    ELSE {[query |-> query, valid |-> TRUE, ok |-> TRUE, rows |-> RowsOf(n),
           error |-> <<>>, txn |-> "intrans"] : n \in 0..MaxRows}
         \cup
         {[query |-> query, valid |-> FALSE, ok |-> FALSE, rows |-> <<>>,
           error |-> ErrServer, txn |-> "inerror"]}

----------------------------------------------------------------------------
(* Rendering *)

\* tabulate(result, headers="keys", tablefmt="plain")
Tabulate(rows) ==
    IF rows = <<>> THEN <<>>
    ELSE <<"header">> \o Flatten([k \in 1..Len(rows) |-> <<"\n", rows[k]>>])

\* the f-string of the success branch
RenderSuccess(query, rows) ==
    <<"\n\nI ran ", Backtick>> \o query
    \o <<Backtick, " and it returned ", ToString(Len(rows)),
         " rows. Here are the first few rows:\n">>
    \o Tabulate(rows) \o <<"\n">>

\* mutant: the except branch reports the statement without the exception
RenderFailureNoMessage(query, e) ==
    <<"\nResult for ", Backtick>> \o query \o <<Backtick, " was an error: ">> \o <<"\n">>

\* the f-string of the except branch
RenderFailure(query, e) ==
    <<"\nResult for ", Backtick>> \o query
    \o <<Backtick, " was an error: ">> \o e \o <<"\n">>

Render(o) ==
    IF o.ok THEN RenderSuccess(o.query, o.rows) ELSE RenderFailure(o.query, o.error)

SystemMessage ==
    [role |-> "system",
     content |-> <<"You are a helpful assistant that writes SQL queries in order to answer questions about a database.">>]

SeedUserMessage(question) ==
    [role |-> "user",
     content |-> <<"Hello, I have a database with the following schema:\n\n",
                   "schema_string",
                   "\n\nI'd like to work with you [...] The question I have is:\n\n\"">>
                 \o question \o <<"\"">>]

AssistantMessage(content) == [role |-> "assistant", content |-> content]

\* f"\n{next_message}\n{result_string}"
FollowupMessage(text, feedback) ==
    [role |-> "user", content |-> <<"\n">> \o text \o <<"\n">> \o feedback]

IsQuit(text) == Lower(text) = <<"q">>

----------------------------------------------------------------------------
(* get_example_rows and format_schema *)

\* a catalog row; column_default is carried by the source and never read
CatalogRow(t, c, ty, nullable) ==
    [table_name |-> t, column_name |-> c, data_type |-> ty, is_nullable |-> nullable]

\* cursor.fetchone(): None for a table without rows, else a mapping
NoSample == [isNone |-> TRUE, row |-> <<>>]
SampleRow(r) == [isNone |-> FALSE, row |-> r]

\* tables = {row['table_name'] for row in schema}
TablesOf(sch) == {sch[k].table_name : k \in 1..Len(sch)}

\* position of the entry of table t in the dict, 0 when it has none
RECURSIVE EntryOf(_, _, _)
EntryOf(groups, t, k) ==
    IF k > Len(groups) THEN 0
    ELSE IF groups[k].name = t THEN k ELSE EntryOf(groups, t, k + 1)

\* the first loop of format_schema: the dict tables, in insertion order
RECURSIVE GroupFrom(_, _, _)
GroupFrom(sch, i, groups) ==
    IF i > Len(sch) THEN groups
    ELSE LET row == sch[i]
             at == EntryOf(groups, row.table_name, 1)
         IN  IF at = 0
             THEN GroupFrom(sch, i + 1,
                      Append(groups, [name |-> row.table_name, columns |-> <<row>>]))
             ELSE GroupFrom(sch, i + 1,
                      [groups EXCEPT ![at].columns = Append(@, row)])

GroupByTable(sch) == GroupFrom(sch, 1, <<>>)

KeyError == "KeyError"
AttributeError == "AttributeError"

\* mutant: the sample is read without the test for None
ExampleValueUnguarded(samples, t, c) ==
    IF t \notin DOMAIN samples THEN KeyError
    ELSE IF samples[t].isNone THEN AttributeError
    ELSE IF c \in DOMAIN samples[t].row THEN samples[t].row[c] ELSE "N/A"

\* 'N/A' if example_rows[table_name] is None
\*       else example_rows[table_name].get(column['column_name'], 'N/A')
ExampleValue(samples, t, c) ==
    IF t \notin DOMAIN samples THEN KeyError
    ELSE IF samples[t].isNone THEN "N/A"
    ELSE IF c \in DOMAIN samples[t].row THEN samples[t].row[c] ELSE "N/A"

\* the f-string of one column
ColumnString(column, value) ==
    <<"  ", column.column_name, " ", column.data_type, " ",
      IF column.is_nullable = "YES" THEN "NULL" ELSE "NOT NULL",
      "; Example: ", value>>

\* sep.join(texts)
RECURSIVE Join(_, _)
Join(texts, sep) ==
    IF texts = <<>> THEN <<>>
    ELSE IF Len(texts) = 1 THEN texts[1]
    ELSE texts[1] \o sep \o Join(Tail(texts), sep)

\* f"Table {table_name}:\n" + "\n".join(column_strings)
TableString(group, samples) ==
    <<"Table ", group.name, ":\n">>
    \o Join([k \in 1..Len(group.columns) |->
                ColumnString(group.columns[k],
                    ExampleValue(samples, group.name, group.columns[k].column_name))],
            <<"\n">>)

\* the text, or the exception the first failing lookup raises
format_schema(sch, samples) ==
    LET groups == GroupByTable(sch)
        values == {ExampleValue(samples, sch[k].table_name, sch[k].column_name) :
                      k \in 1..Len(sch)}
    IN  IF KeyError \in values THEN <<KeyError>>
        ELSE IF AttributeError \in values THEN <<AttributeError>>
        ELSE Join([g \in 1..Len(groups) |-> TableString(groups[g], samples)],
                  <<"\n\n">>)

\* what get_example_rows can return for the tables: one entry per table
get_example_rows(tables, rows) ==
    [tables -> {NoSample} \cup {SampleRow(r) : r \in rows}]

\* the catalog and the samples of the session's database
SessionSchema ==
    <<CatalogRow("studies", "id", "integer", "NO"),
      CatalogRow("studies", "name", "text", "YES")>>

SessionSamples == [t \in Tables |-> SampleRow([c \in {"id", "name"} |-> "1"])]

----------------------------------------------------------------------------
(* main() *)

\* while num_tries < 4
MaxTries == 4

\* if num_tries >= 3: give up
GiveUpAt == 3

LoopPcs == {"loop", "retry", "awaiting", "reply", "exec", "followup"}

Init ==
    /\ pc = "connect"
    /\ conn = "none"
    /\ closeCount = 0
    /\ txn = "idle"
    /\ selected_table = NoTable
    /\ initial_question = None
    /\ messages = <<>>
    /\ num_tries = 0
    /\ response = None
    /\ inflight = 0
    /\ calls = 0
    /\ response_content = None
    /\ queries = <<>>
    /\ qi = 1
    /\ result_string = <<>>
    /\ outcomes = <<>>
    /\ next_message = None
    /\ turn = 0
    /\ exit = "none"
    /\ leftover_tries = 0
    /\ schema = None
    /\ example_rows = NoSamples
    /\ schema_string = None

\* connect_db, get_schema, get_example_rows, format_schema: the SELECTs of
\* the schema source open a transaction that nothing commits
Connect ==
    /\ pc = "connect"
    /\ conn' = "open"
    /\ txn' = "intrans"
    /\ pc' = "select_table"
    /\ schema' = SessionSchema
    /\ example_rows' = SessionSamples
    /\ schema_string' = format_schema(schema', example_rows')
    /\ UNCHANGED <<leftover_tries, closeCount, selected_table, initial_question, messages,
                   num_tries, response, inflight, calls, response_content,
                   queries, qi, result_string, outcomes, next_message, turn, exit>>

\* the "Select a table" prompt; an unknown table returns from main()
SelectTable ==
    /\ pc = "select_table"
    /\ \E t \in TableInputs :
        /\ selected_table' = t
        /\ IF t \notin Tables
           THEN pc' = "done" /\ exit' = "invalid_table"
           ELSE pc' = "ask_question" /\ exit' = exit
    /\ UNCHANGED schemaVars
    /\ UNCHANGED <<leftover_tries, conn, closeCount, txn, initial_question, messages, num_tries,
                   response, inflight, calls, response_content, queries, qi,
                   result_string, outcomes, next_message, turn>>

\* the first question prompt; "q" returns from main(), anything else seeds
\* the conversation
AskQuestion ==
    /\ pc = "ask_question"
    /\ \E q \in UserInputs :
        /\ initial_question' = q
        /\ IF IsQuit(q)
           THEN pc' = "done" /\ exit' = "quit_initial" /\ messages' = messages
           ELSE /\ pc' = "loop"
                /\ exit' = exit
                /\ messages' = <<SystemMessage, SeedUserMessage(q)>>
    /\ UNCHANGED schemaVars
    /\ UNCHANGED <<leftover_tries, conn, closeCount, txn, selected_table, num_tries, response,
                   inflight, calls, response_content, queries, qi, result_string,
                   outcomes, next_message, turn>>

\* mutant: the counter is set once, before the while True loop
TriesCarriedOver == num_tries

\* num_tries = 0
TriesAtRequestStart == 0

\* top of the while True loop: num_tries = 0, response = None
StartRequest ==
    /\ pc = "loop"
    /\ turn < MaxTurns
    /\ leftover_tries' = num_tries
    /\ num_tries' = TriesAtRequestStart
    /\ response' = None
    /\ calls' = 0
    /\ turn' = turn + 1
    /\ pc' = "retry"
    /\ UNCHANGED schemaVars
    /\ UNCHANGED <<conn, closeCount, txn, selected_table, initial_question,
                   messages, inflight, response_content, queries, qi,
                   result_string, outcomes, next_message, exit>>

\* the guard of the retry loop, and the call of chat.completions.create
TryCall ==
    /\ pc = "retry"
    /\ IF num_tries < MaxTries
       THEN /\ inflight' = inflight + 1
            /\ calls' = calls + 1
            /\ pc' = "awaiting"
       ELSE /\ pc' = "reply"
            /\ UNCHANGED <<inflight, calls>>
    /\ UNCHANGED schemaVars
    /\ UNCHANGED <<leftover_tries, conn, closeCount, txn, selected_table, initial_question,
                   messages, num_tries, response, response_content, queries, qi,
                   result_string, outcomes, next_message, turn, exit>>

\* the call returns one of the replies: break
CallReturnsFrom(replies) ==
    /\ pc = "awaiting"
    /\ \E r \in replies : response' = r
    /\ inflight' = inflight - 1
    /\ leftover_tries' = 0
    /\ pc' = "reply"
    /\ UNCHANGED schemaVars
    /\ UNCHANGED <<conn, closeCount, txn, selected_table, initial_question,
                   messages, num_tries, calls, response_content, queries, qi,
                   result_string, outcomes, next_message, turn, exit>>

CallReturns == CallReturnsFrom(Replies)

\* mutant: the except branch never gives up
GaveUpNever(tries) == FALSE

\* mutant: the except branch gives up only past the bound of the loop guard
GaveUpPastGuard(tries) == tries > MaxTries

\* the failed attempts after which the except branch returns from main()
GaveUp(tries) == tries >= GiveUpAt

\* the call raises: count the failure, give up or try again
CallFails ==
    /\ pc = "awaiting"
    /\ inflight' = inflight - 1
    /\ num_tries' = num_tries + 1
    /\ IF GaveUp(num_tries')
       THEN pc' = "done" /\ exit' = "gave_up"
       ELSE pc' = "retry" /\ exit' = exit
    /\ UNCHANGED schemaVars
    /\ UNCHANGED <<leftover_tries, conn, closeCount, txn, selected_table, initial_question,
                   messages, response, calls, response_content, queries, qi,
                   result_string, outcomes, next_message, turn>>

\* mutant: the loop stops one candidate early
LoopDoneEarly(i, n) == i >= n

\* the for loop is over once every candidate has been taken
LoopDone(i, n) == i > n

\* mutant: the reply is shown but not appended to the conversation
AppendReplyOmitted(msgs, content) == msgs

\* messages.append({"role": "assistant", "content": response_content})
AppendReply(msgs, content) == Append(msgs, AssistantMessage(content))

\* mutant: the feedback is emptied once, before the while True loop
FeedbackCarriedOver == result_string

\* result_string = ""
FeedbackAtTurnStart == <<>>

\* after the retry loop: read the reply, append it, extract the candidates
ProcessReply ==
    /\ pc = "reply"
    /\ IF response = None
       THEN \* response.choices raises AttributeError
            /\ pc' = "done"
            /\ exit' = "crashed"
            /\ UNCHANGED <<response_content, messages, queries, qi,
                           result_string, outcomes>>
       ELSE /\ response_content' = response
            /\ messages' = AppendReply(messages, response)
            /\ queries' = extract_queries_from_response(response)
            /\ result_string' = FeedbackAtTurnStart
            /\ outcomes' = <<>>
            /\ qi' = 1
            /\ pc' = IF LoopDone(1, Len(queries')) THEN "followup" ELSE "exec"
            /\ exit' = exit
    /\ UNCHANGED schemaVars
    /\ UNCHANGED <<leftover_tries, conn, closeCount, txn, selected_table, initial_question,
                   num_tries, response, inflight, calls, next_message, turn>>

\* mutant: the rendering is put in front of the feedback
AddFeedbackInFront(feedback, rendering) == rendering \o feedback

\* result_string += rendering
AddFeedback(feedback, rendering) == feedback \o rendering

\* one iteration of "for query in queries": both branches of the try
ExecQuery ==
    /\ pc = "exec"
    /\ qi <= Len(queries)
    /\ \E o \in Execute(queries[qi], conn, txn) :
        /\ outcomes' = Append(outcomes, o)
        /\ txn' = o.txn
        /\ result_string' = AddFeedback(result_string, Render(o))
    /\ qi' = qi + 1
    /\ pc' = IF LoopDone(qi', Len(queries)) THEN "followup" ELSE "exec"
    /\ UNCHANGED schemaVars
    /\ UNCHANGED <<leftover_tries, conn, closeCount, selected_table, initial_question, messages,
                   num_tries, response, inflight, calls, response_content,
                   queries, next_message, turn, exit>>

\* mutant: conn.close() indented into the while True loop, so that it runs
\* at the end of every iteration that does not break
FollowupClosing ==
    /\ pc = "followup"
    /\ \E m \in UserInputs :
        /\ next_message' = m
        /\ IF IsQuit(m)
           THEN /\ pc' = "done"
                /\ exit' = "quit"
                /\ messages' = messages
                /\ UNCHANGED <<conn, closeCount>>
           ELSE /\ pc' = "loop"
                /\ exit' = exit
                /\ messages' = Append(messages, FollowupMessage(m, result_string))
                /\ conn' = "closed"
                /\ closeCount' = closeCount + 1
    /\ UNCHANGED schemaVars
    /\ UNCHANGED <<leftover_tries, txn, selected_table, initial_question,
                   num_tries, response, inflight, calls, response_content,
                   queries, qi, result_string, outcomes, turn>>

\* the follow-up prompt: "q" breaks out of the loop, anything else is
\* appended with the feedback of the turn
Followup ==
    /\ pc = "followup"
    /\ \E m \in UserInputs :
        /\ next_message' = m
        /\ IF IsQuit(m)
           THEN pc' = "close" /\ exit' = "quit" /\ messages' = messages
           ELSE /\ pc' = "loop"
                /\ exit' = exit
                /\ messages' = Append(messages, FollowupMessage(m, result_string))
    /\ UNCHANGED schemaVars
    /\ UNCHANGED <<leftover_tries, conn, closeCount, txn, selected_table, initial_question,
                   num_tries, response, inflight, calls, response_content,
                   queries, qi, result_string, outcomes, turn>>

\* conn.close() after the loop
CloseConn ==
    /\ pc = "close"
    /\ conn' = "closed"
    /\ closeCount' = closeCount + 1
    /\ pc' = "done"
    /\ UNCHANGED schemaVars
    /\ UNCHANGED <<leftover_tries, txn, selected_table, initial_question, messages, num_tries,
                   response, inflight, calls, response_content, queries, qi,
                   result_string, outcomes, next_message, turn, exit>>

Next ==
    \/ Connect
    \/ SelectTable
    \/ AskQuestion
    \/ StartRequest
    \/ TryCall
    \/ CallReturns
    \/ CallFails
    \/ ProcessReply
    \/ ExecQuery
    \/ Followup
    \/ CloseConn

Spec == Init /\ [][Next]_vars

\* The session with a model that answers in prose or with one statement,
\* for the properties of the requests, which do not read the reply.  main()
\* is sequential code that keeps running, and a call of the model transport
\* returns or raises within its timeout.
RequestReplies ==
    { <<"h", "i">>,
      Fence \o SqlTag \o <<"\n", "a", "\n">> \o Fence }

CallReturnsShort == CallReturnsFrom(RequestReplies)

NextRequest ==
    \/ Connect
    \/ SelectTable
    \/ AskQuestion
    \/ StartRequest
    \/ TryCall
    \/ CallReturnsShort
    \/ CallFails
    \/ ProcessReply
    \/ ExecQuery
    \/ Followup
    \/ CloseConn

RequestSpec ==
    /\ Init
    /\ [][NextRequest]_vars
    /\ WF_vars(StartRequest)
    /\ WF_vars(TryCall)
    /\ WF_vars(CallReturnsShort \/ CallFails)

TypeOK ==
    /\ pc \in LoopPcs \cup {"connect", "select_table", "ask_question", "close", "done"}
    /\ conn \in {"none", "open", "closed"}
    /\ txn \in {"idle", "intrans", "inerror"}
    /\ num_tries \in 0..MaxTries
    /\ turn \in 0..MaxTurns
    /\ inflight \in 0..1

----------------------------------------------------------------------------
(* extract_queries_from_response on its own: every reply of at most        *)
(* MaxReplyTokens tokens is given to the function                          *)

ReplyTokens == {Fence, SqlTag, <<" ">>, <<"a">>, <<Backtick>>}

ExtractInputs ==
    UNION { {Flatten(ts) : ts \in [1..n -> ReplyTokens]} : n \in 0..MaxReplyTokens }

InitExtract ==
    /\ pc = "extract_input"
    /\ response_content \in ExtractInputs
    /\ conn = "none"
    /\ closeCount = 0
    /\ txn = "idle"
    /\ selected_table = NoTable
    /\ initial_question = None
    /\ messages = <<>>
    /\ num_tries = 0
    /\ response = None
    /\ inflight = 0
    /\ calls = 0
    /\ queries = <<>>
    /\ qi = 1
    /\ result_string = <<>>
    /\ outcomes = <<>>
    /\ next_message = None
    /\ turn = 0
    /\ exit = "none"
    /\ leftover_tries = 0
    /\ schema = None
    /\ example_rows = NoSamples
    /\ schema_string = None

ExtractCall ==
    /\ pc = "extract_input"
    /\ queries' = extract_queries_from_response(response_content)
    /\ pc' = "extract_output"
    /\ UNCHANGED schemaVars
    /\ UNCHANGED <<leftover_tries, conn, closeCount, txn, selected_table, initial_question,
                   messages, num_tries, response, inflight, calls,
                   response_content, qi, result_string, outcomes, next_message,
                   turn, exit>>

NextExtract == ExtractCall

SpecExtract == InitExtract /\ [][NextExtract]_vars

----------------------------------------------------------------------------
(* One turn of main() on every reply of at most MaxReplyTokens tokens: the  *)
(* first call of the first request has just returned                       *)

InitTurn ==
    /\ pc = "reply"
    /\ response \in ExtractInputs
    /\ conn = "open"
    /\ closeCount = 0
    /\ txn = "intrans"
    /\ selected_table \in Tables
    /\ initial_question = <<"H", "i">>
    /\ messages = <<SystemMessage, SeedUserMessage(initial_question)>>
    /\ num_tries = 0
    /\ inflight = 0
    /\ calls = 1
    /\ response_content = None
    /\ queries = <<>>
    /\ qi = 1
    /\ result_string = <<>>
    /\ outcomes = <<>>
    /\ next_message = None
    /\ turn = 1
    /\ exit = "none"
    /\ leftover_tries = 0
    /\ schema = SessionSchema
    /\ example_rows = SessionSamples
    /\ schema_string = format_schema(schema, example_rows)

NextTurn ==
    \/ ProcessReply
    \/ ExecQuery
    \/ Followup
    \/ CloseConn

SpecTurn == InitTurn /\ [][NextTurn]_vars

----------------------------------------------------------------------------
(* The success branch of the for loop on its own: a candidate and a result *)
(* of at most MaxRenderRows rows are rendered into the feedback            *)

\* the candidates of all the replies of ExtractInputs
RenderQueries ==
    UNION { {extract_queries_from_response(r)[k] :
                k \in 1..Len(extract_queries_from_response(r))} : r \in ExtractInputs }

InitRender ==
    /\ pc = "render_input"
    /\ \E q \in RenderQueries, n \in 0..MaxRenderRows :
        /\ queries = <<q>>
        /\ outcomes = <<[query |-> q, valid |-> TRUE, ok |-> TRUE,
                         rows |-> RowsOf(n), error |-> <<>>, txn |-> "intrans"]>>
    /\ response_content = None
    /\ response = None
    /\ conn = "open"
    /\ closeCount = 0
    /\ txn = "intrans"
    /\ selected_table = NoTable
    /\ initial_question = None
    /\ messages = <<>>
    /\ num_tries = 0
    /\ inflight = 0
    /\ calls = 0
    /\ qi = 1
    /\ result_string = <<>>
    /\ next_message = None
    /\ turn = 0
    /\ exit = "none"
    /\ leftover_tries = 0
    /\ schema = None
    /\ example_rows = NoSamples
    /\ schema_string = None

RenderCall ==
    /\ pc = "render_input"
    /\ result_string' = AddFeedback(result_string, Render(outcomes[1]))
    /\ pc' = "render_output"
    /\ UNCHANGED schemaVars
    /\ UNCHANGED <<leftover_tries, conn, closeCount, txn, selected_table,
                   initial_question, messages, num_tries, response, inflight,
                   calls, response_content, queries, qi, outcomes, next_message,
                   turn, exit>>

NextRender == RenderCall

SpecRender == InitRender /\ [][NextRender]_vars

----------------------------------------------------------------------------
(* format_schema on its own: every catalog of at most MaxCatalogRows       *)
(* columns, with every sample get_example_rows can return for its tables   *)

CatalogTables == {"studies", "sponsors"}
CatalogColumns == {"id", "name"}
TypeOfColumn(c) == IF c = "id" THEN "integer" ELSE "text"

CatalogRows ==
    {CatalogRow(t, c, TypeOfColumn(c), nullable) :
        t \in CatalogTables, c \in CatalogColumns, nullable \in {"YES", "NO"}}

\* information_schema.columns lists a column of a table once
Catalogs ==
    {sch \in UNION {[1..n -> CatalogRows] : n \in 0..MaxCatalogRows} :
        \A i, j \in 1..Len(sch) :
            (i # j) => (sch[i].table_name # sch[j].table_name
                        \/ sch[i].column_name # sch[j].column_name)}

\* the rows SELECT * can return: a value for some of the catalog's columns
SampleRows ==
    UNION {[cs -> {"1"}] : cs \in SUBSET CatalogColumns}

InitSchema ==
    /\ pc = "schema_input"
    /\ schema \in Catalogs
    /\ example_rows \in get_example_rows(TablesOf(schema), SampleRows)
    /\ schema_string = None
    /\ response_content = None
    /\ response = None
    /\ conn = "open"
    /\ closeCount = 0
    /\ txn = "intrans"
    /\ selected_table = NoTable
    /\ initial_question = None
    /\ messages = <<>>
    /\ num_tries = 0
    /\ inflight = 0
    /\ calls = 0
    /\ queries = <<>>
    /\ qi = 1
    /\ result_string = <<>>
    /\ outcomes = <<>>
    /\ next_message = None
    /\ turn = 0
    /\ exit = "none"
    /\ leftover_tries = 0

FormatSchemaCall ==
    /\ pc = "schema_input"
    /\ schema_string' = format_schema(schema, example_rows)
    /\ pc' = "schema_output"
    /\ UNCHANGED <<schema, example_rows>>
    /\ UNCHANGED <<leftover_tries, conn, closeCount, txn, selected_table,
                   initial_question, messages, num_tries, response, inflight,
                   calls, response_content, queries, qi, result_string, outcomes,
                   next_message, turn, exit>>

NextSchema == FormatSchemaCall

SpecSchema == InitSchema /\ [][NextSchema]_vars

----------------------------------------------------------------------------
(* Properties *)

\* C1: a request whose first attempt succeeds makes exactly 1 call to the
\* model transport, and a request reports the terminal failure only after 4
\* failed calls (the first attempt and 3 retries).
C1_FourCallsBeforeGivingUp ==
    /\ (pc = "reply" /\ response # None /\ num_tries = 0 => calls = 1)
    /\ (exit = "gave_up" => calls = MaxTries /\ num_tries = MaxTries)

\* C2: on every path that ends main() after the connection was opened, the
\* connection has been closed exactly once.
C2_ClosedExactlyOnce ==
    (pc = "done" /\ conn # "none") => closeCount = 1

\* C3: a statement that the server accepts on its own succeeds also when an
\* earlier statement of the candidate list failed.
C3_LaterStatementSucceeds ==
    \A j \in 1..Len(outcomes) :
        (outcomes[j].valid /\ \E i \in 1..(j - 1) : ~outcomes[i].ok)
            => outcomes[j].ok

\* the fenced regions of a reply, in the order they appear
FencedRegions(content) == OddChunks(Split(content, Fence))

\* a region without the language tag it starts with
WithoutLeadingTag(region) ==
    IF MatchesAt(region, 1, SqlTag) THEN SubSeq(region, Len(SqlTag) + 1, Len(region))
    ELSE region

\* C4: for a reply with n fenced regions the extraction returns n candidates,
\* in the order of the regions, each its region stripped of a leading
\* language tag and of the surrounding whitespace.
C4_CandidatePerRegion ==
    pc = "extract_output" =>
        LET regions == FencedRegions(response_content)
        IN  /\ Len(queries) = Len(regions)
            /\ \A k \in 1..Len(regions) :
                   queries[k] = Strip(WithoutLeadingTag(regions[k]))

\* C5: for a reply without a fence delimiter the extraction returns no
\* candidate, no statement is executed in the turn, the feedback string is
\* empty and main() is at the follow-up prompt.
C5_NoFenceNoExecution ==
    (pc \in {"exec", "followup"} /\ ~Contains(response_content, Fence)) =>
        /\ queries = <<>>
        /\ outcomes = <<>>
        /\ result_string = <<>>
        /\ pc = "followup"
        /\ exit = "none"

C5_Witness ==
    /\ pc = "followup"
    /\ turn = 2
    /\ ~Contains(response_content, Fence)
    /\ Contains(response_content, <<Backtick>>)
    /\ txn = "intrans"

\* the renderings of the outcomes, in the order of the outcomes
RenderAll(os) == Flatten([k \in 1..Len(os) |-> Render(os[k])])

\* C6: every candidate of a turn gets exactly one outcome, and the feedback
\* string is the renderings of the outcomes in the order of the candidates.
C6_OutcomePerCandidate ==
    /\ pc = "exec" => Len(outcomes) = qi - 1 /\ qi <= Len(queries)
    /\ pc # "exec" => Len(outcomes) = Len(queries)
    /\ \A k \in 1..Len(outcomes) : outcomes[k].query = queries[k]
    /\ result_string = RenderAll(outcomes)

C6_Witness ==
    /\ pc = "followup"
    /\ Len(queries) = 2
    /\ outcomes[1].ok
    /\ ~outcomes[2].ok

RoleAt(k) ==
    IF k = 1 THEN "system"
    ELSE IF k % 2 = 0 THEN "user" ELSE "assistant"

\* C7: in the session loop the conversation is a system message, a user
\* message, and then assistant and user messages in alternation.
C7_RolesAlternate ==
    pc \in LoopPcs =>
        /\ Len(messages) >= 2
        /\ \A k \in 1..Len(messages) : messages[k].role = RoleAt(k)

C7_Witness ==
    /\ pc = "followup"
    /\ Len(messages) = 5

\* C8: a failing statement ends neither the turn nor the session: the for
\* loop goes on to the follow-up prompt, where the feedback string holds
\* the text and the error message of every failed statement, and the loop
\* is left only by giving up on the model or by the user's quit.
C8_StatementErrorsAbsorbed ==
    /\ pc = "exec" => exit = "none"
    /\ pc = "followup" =>
        /\ exit = "none"
        /\ \A k \in 1..Len(queries) :
               ~outcomes[k].ok =>
                   /\ Contains(result_string, <<Backtick>> \o queries[k] \o <<Backtick>>)
                   /\ Contains(result_string, outcomes[k].error)
    /\ (messages # <<>> /\ exit # "none") => exit \in {"gave_up", "quit"}

C8_Witness ==
    /\ pc = "followup"
    /\ Len(queries) = 2
    /\ ~outcomes[1].ok
    /\ ~outcomes[2].ok
    /\ outcomes[1].error # outcomes[2].error

\* C9: when a model request is issued, every candidate of the previous reply
\* has been executed and the follow-up has been read and appended; at most
\* one request is outstanding, and none while statements are executed.
C9_TurnSequential ==
    /\ inflight <= 1
    /\ inflight = 1 => pc = "awaiting"
    /\ pc = "exec" => inflight = 0
    /\ (pc \in {"loop", "retry", "awaiting"} /\ Len(messages) > 2) =>
        /\ Len(outcomes) = Len(queries)
        /\ qi = Len(queries) + 1
        /\ next_message # None
        /\ messages[Len(messages)] = FollowupMessage(next_message, result_string)

C9_Witness ==
    /\ pc = "awaiting"
    /\ turn = 2
    /\ Len(outcomes) = 2

\* C10: at the follow-up prompt "q" and "Q", and no other input, end the
\* loop; the quit appends no message, and after it no request is made and
\* no statement is executed.
C10_QuitAtFollowup ==
    [][/\ pc = "followup" =>
            /\ (next_message' \in {<<"q">>, <<"Q">>}) <=> (pc' = "close")
            /\ pc' = "close" => (exit' = "quit" /\ messages' = messages)
            /\ pc' # "close" => (exit' = "none" /\ pc' = "loop")
       /\ exit = "quit" =>
            /\ pc' \in {"close", "done"}
            /\ messages' = messages
            /\ calls' = calls
            /\ inflight' = inflight
            /\ outcomes' = outcomes
            /\ txn' = txn
      ]_vars

C10_Witness ==
    /\ pc = "done"
    /\ exit = "quit"
    /\ next_message = <<"Q">>

\* the candidates of the reply that the conversation ends with
CandidatesOfLastReply ==
    extract_queries_from_response(messages[Len(messages)].content)

\* C11: a follow-up other than the quit appends exactly one user message,
\* the new text followed by the feedback of the statements of the current
\* turn only, and the next step is a new model request.
C11_FollowupAppended ==
    [][/\ (pc = "followup" /\ pc' # "close") =>
            /\ messages[Len(messages)].role = "assistant"
            /\ queries = CandidatesOfLastReply
            /\ Len(outcomes) = Len(queries)
            /\ \A k \in 1..Len(queries) : outcomes[k].query = queries[k]
            /\ messages' = Append(messages,
                   [role |-> "user",
                    content |-> <<"\n">> \o next_message' \o <<"\n">>
                                \o RenderAll(outcomes)])
            /\ pc' = "loop"
            /\ exit' = "none"
       /\ pc = "loop" =>
            /\ pc' = "retry"
            /\ messages' = messages
       /\ pc = "retry" => (pc' = "awaiting" /\ inflight' = 1)
      ]_vars

C11_Witness ==
    /\ pc = "loop"
    /\ turn = 2
    /\ Len(messages) = 6
    /\ Len(outcomes) = 1
    /\ \E k \in 1..Len(messages[4].content) : messages[4].content[k] = "row"
    /\ \A k \in 1..Len(messages[6].content) : messages[6].content[k] # "row"

\* C12: every request starts with num_tries = 0, whatever the failed
\* attempts of the request before it, so that every request can fail as
\* often as the first before main() gives up.
C12_CounterResetPerRequest ==
    /\ pc \in {"retry", "awaiting"} => num_tries = calls - inflight
    /\ (pc = "retry" /\ calls = 0) => num_tries = 0
    /\ exit = "gave_up" => calls = GiveUpAt

C12_Witness ==
    /\ turn = 2
    /\ leftover_tries = 2
    /\ pc = "awaiting"
    /\ num_tries = 2
    /\ calls = 3

\* C19: the reply is read only when a call has returned one: the retry loop
\* is never left through its guard, because the except branch gives up at
\* the 3rd failure and the guard stops at 4.
C19_ReplyPresent ==
    /\ pc = "reply" => response # None
    /\ pc \in {"retry", "awaiting"} => (num_tries < GiveUpAt /\ num_tries < MaxTries)
    /\ exit # "crashed"
    /\ pc \in {"exec", "followup"} => response_content = response

C19_Witness ==
    /\ pc = "reply"
    /\ num_tries = GiveUpAt - 1
    /\ calls = GiveUpAt
    /\ response # None

\* C20: nothing uses the connection after conn.close(): the close is the
\* last step of main(), and no statement has met a closed connection.
C20_NoUseAfterClose ==
    /\ conn = "closed" => (pc = "done" /\ closeCount = 1)
    /\ pc = "exec" => conn = "open"
    /\ \A k \in 1..Len(outcomes) : outcomes[k].error # ErrClosed

C20_Witness ==
    /\ conn = "closed"
    /\ Len(outcomes) = 2
    /\ turn = 2

\* one call of the request was not a failure and none is in flight
ReplyReceived == inflight = 0 /\ calls = num_tries + 1

\* C13: a request ends with a reply or, when its calls keep failing, with
\* main() giving up after at most MaxTries calls; after giving up nothing
\* changes any more: no request, no statement, no message.
C13_GivesUpAndStops ==
    /\ (pc = "retry") ~> (ReplyReceived \/ exit = "gave_up")
    /\ [](calls <= MaxTries)
    /\ [][exit # "gave_up"]_vars

C13_Witness ==
    /\ exit = "gave_up"
    /\ pc = "done"
    /\ turn = 2
    /\ Len(messages) = 4

\* the number of times t occurs in s
RECURSIVE Occurrences(_, _, _)
Occurrences(s, t, i) ==
    IF i > Len(s) THEN 0
    ELSE IF MatchesAt(s, i, t) THEN 1 + Occurrences(s, t, i + Len(t))
    ELSE Occurrences(s, t, i + 1)

\* C14: the candidate of a fenced segment is the segment without a leading
\* "sql" tag and without the surrounding whitespace: every "sql" elsewhere in
\* the segment is still in the candidate.
C14_InnerSqlPreserved ==
    pc = "extract_output" =>
        LET regions == FencedRegions(response_content)
        IN  \A k \in 1..Len(regions) :
                LET inner == WithoutLeadingTag(regions[k])
                IN  /\ k <= Len(queries)
                    /\ Occurrences(queries[k], SqlTag, 1) = Occurrences(inner, SqlTag, 1)
                    /\ queries[k] = Strip(inner)

\* C15: no candidate is empty, and no empty statement is given to the
\* database.
C15_NoEmptyCandidate ==
    pc = "followup" =>
    /\ \A k \in 1..Len(queries) : queries[k] # <<>>
    /\ \A k \in 1..Len(outcomes) : outcomes[k].query # <<>>

\* the fence delimiters of a reply, counted from the left without overlap,
\* and the position after the last of them
RECURSIVE FenceScan(_, _, _, _)
FenceScan(s, i, n, after) ==
    IF i > Len(s) THEN [count |-> n, after |-> after]
    ELSE IF MatchesAt(s, i, Fence)
         THEN FenceScan(s, i + Len(Fence), n + 1, i + Len(Fence))
         ELSE FenceScan(s, i + 1, n, after)

FenceCount(s) == FenceScan(s, 1, 0, 1).count

AfterLastFence(s) == SubSeq(s, FenceScan(s, 1, 0, 1).after, Len(s))

\* C16: for a reply with an odd number of fence delimiters the text after
\* the last delimiter, cleaned like every chunk, is the last candidate; when
\* it fails, the failure is the last rendering of the feedback and main() is
\* at the follow-up prompt.
C16_UnterminatedFence ==
    (pc \in {"exec", "followup"} /\ FenceCount(response_content) % 2 = 1) =>
        /\ Len(queries) = (FenceCount(response_content) + 1) \div 2
        /\ queries[Len(queries)] = CleanChunk(AfterLastFence(response_content))
        /\ exit = "none"
        /\ pc = "followup" =>
            /\ Len(outcomes) = Len(queries)
            /\ LET last == outcomes[Len(outcomes)]
                   shown == RenderFailure(queries[Len(queries)], last.error)
               IN  ~last.ok =>
                       /\ Len(result_string) >= Len(shown)
                       /\ SubSeq(result_string, Len(result_string) - Len(shown) + 1,
                                 Len(result_string)) = shown

C16_Witness ==
    /\ pc = "followup"
    /\ FenceCount(response_content) = 3
    /\ AfterLastFence(response_content) = <<"a">>
    /\ Len(outcomes) = 2
    /\ outcomes[1].ok
    /\ ~outcomes[2].ok

\* the preview the claim C17 speaks of: "the first few rows"
PreviewRows == 3

\* the rows shown in a text
RECURSIVE RowsShown(_)
RowsShown(text) ==
    IF text = <<>> THEN 0
    ELSE (IF Head(text) = "row" THEN 1 ELSE 0) + RowsShown(Tail(text))

\* C17: the rendering of a success states the number of rows returned and
\* shows at most PreviewRows of them, however many were returned.
C17_BoundedPreview ==
    pc = "render_output" =>
        /\ Contains(result_string, <<ToString(Len(outcomes[1].rows))>>)
        /\ RowsShown(result_string) <= PreviewRows

\* the tables of a catalog in the order of their first rows
RECURSIVE FirstSeen(_, _)
FirstSeen(sch, seen) ==
    IF sch = <<>> THEN <<>>
    ELSE IF Head(sch).table_name \in seen THEN FirstSeen(Tail(sch), seen)
    ELSE <<Head(sch).table_name>>
         \o FirstSeen(Tail(sch), seen \cup {Head(sch).table_name})

\* the rows of table t, in the order of the catalog
RECURSIVE RowsOfTable(_, _)
RowsOfTable(sch, t) ==
    IF sch = <<>> THEN <<>>
    ELSE (IF Head(sch).table_name = t THEN <<Head(sch)>> ELSE <<>>)
         \o RowsOfTable(Tail(sch), t)

\* the example a line must show for a catalog row
ExpectedExample(row, samples) ==
    LET sample == samples[row.table_name]
    IN  IF sample.isNone \/ row.column_name \notin DOMAIN sample.row THEN "N/A"
        ELSE sample.row[row.column_name]

ExpectedLine(row, samples) ==
    <<"  ", row.column_name, " ", row.data_type, " ",
      IF row.is_nullable = "YES" THEN "NULL" ELSE "NOT NULL",
      "; Example: ", ExpectedExample(row, samples)>>

\* the lines of a table, each after a line break but the first
RECURSIVE ExpectedLines(_, _)
ExpectedLines(rows, samples) ==
    IF rows = <<>> THEN <<>>
    ELSE ExpectedLine(Head(rows), samples)
         \o (IF Len(rows) > 1 THEN <<"\n">> ELSE <<>>)
         \o ExpectedLines(Tail(rows), samples)

RECURSIVE ExpectedTables(_, _, _)
ExpectedTables(names, sch, samples) ==
    IF names = <<>> THEN <<>>
    ELSE <<"Table ", Head(names), ":\n">>
         \o ExpectedLines(RowsOfTable(sch, Head(names)), samples)
         \o (IF Len(names) > 1 THEN <<"\n\n">> ELSE <<>>)
         \o ExpectedTables(Tail(names), sch, samples)

\* C18: format_schema raises nothing for a table without rows or a column
\* the sample lacks: its text has one line per catalog column, in catalog
\* order under the tables in first-seen order, with the example "N/A"
\* where the sample is None or has no such column.
C18_SchemaText ==
    pc = "schema_output" =>
        /\ schema_string \notin {<<KeyError>>, <<AttributeError>>}
        /\ schema_string = ExpectedTables(FirstSeen(schema, {}), schema, example_rows)
        /\ Occurrences(schema_string, <<"; Example: ">>, 1) = Len(schema)

C18_Witness ==
    /\ pc = "schema_output"
    /\ Len(schema) = 3
    /\ schema[1].table_name = "studies"
    /\ schema[2].table_name = "sponsors"
    /\ schema[3].table_name = "studies"
    /\ example_rows["studies"].isNone
    /\ ~example_rows["sponsors"].isNone
    /\ schema[2].column_name \notin DOMAIN example_rows["sponsors"].row

====
